---------------------------- MODULE Spec2Model ----------------------------
(***************************************************************************)
(* docparser: extraction of key/value fields from semi-structured text     *)
(* with composable regular-expression patterns (PatternGroup, PatternList, *)
(* Document, Documents) and the Fields accessors.                          *)
(*                                                                         *)
(* Texts are sequences of tokens.  A regular expression is a sequence of   *)
(* elements, each a literal token, a capture group of one token or a       *)
(* trailing capture group of the rest of the text; a capture group is      *)
(* named or unnamed.                                                       *)
(* Pattern names are plain identifiers, which %q renders between double    *)
(* quotes without any escape.                                              *)
(***************************************************************************)
EXTENDS Integers, Sequences, FiniteSets, TLC

VARIABLES root, content, op, ret, got, first

vars == <<root, content, op, ret, got, first>>

\* ------------------------------------------------------------------ bounds
MaxContentLen == 3
MaxPatterns == 3
MaxDocs == 3
MaxItems == 2
MaxReuseLen == 2

\* ------------------------------------------------------------------- texts
Tokens == {";", "a", "b"}

TextsUpTo(n) == UNION {[1..k -> Tokens] : k \in 0..n}

Contents == TextsUpTo(MaxContentLen)

\* the contents a List is searched in: room for a body of three items
ListContents == TextsUpTo(MaxContentLen + 2)

\* ----------------------------------------------------------------- regexes
Lit(c) == [t |-> "lit", c |-> c, name |-> ""]
One(name) == [t |-> "one", c |-> "", name |-> name]
Rest(name) == [t |-> "rest", c |-> "", name |-> name]

\* the match of re that starts at position p of text
MatchAt(re, text, p) ==
    \A i \in 1..Len(re) :
        LET q == p + i - 1 IN
        IF re[i].t = "rest"
        THEN q <= Len(text) + 1
        ELSE q <= Len(text) /\ (re[i].t = "lit" => text[q] = re[i].c)

MatchStarts(re, text) == {p \in 1..(Len(text) + 1) : MatchAt(re, text, p)}

MatchString(re, text) == MatchStarts(re, text) # {}

\* the indexes of the capture groups of re, in order
CapIdx(re) ==
    LET F[i \in 0..Len(re)] ==
            IF i = 0 THEN <<>>
            ELSE IF re[i].t = "lit" THEN F[i - 1] ELSE Append(F[i - 1], i)
    IN F[Len(re)]

\* names[1] is the name of the whole match, always ""
SubexpNames(re) ==
    LET caps == CapIdx(re)
    IN <<"">> \o [j \in 1..Len(caps) |-> re[caps[j]].name]

\* the text element i of re matched, in the match that starts at p
ElemText(re, text, p, i) ==
    IF re[i].t = "rest" THEN SubSeq(text, p + i - 1, Len(text))
    ELSE <<text[p + i - 1]>>

\* leftmost match; <<>> stands for nil (no match)
FindStringSubmatch(re, text) ==
    LET starts == MatchStarts(re, text) IN
    IF starts = {} THEN <<>>
    ELSE LET p == CHOOSE x \in starts : \A y \in starts : x <= y
             last == IF Len(re) > 0 /\ re[Len(re)].t = "rest"
                     THEN Len(text) ELSE p + Len(re) - 1
             caps == CapIdx(re)
         IN <<SubSeq(text, p, last)>>
            \o [j \in 1..Len(caps) |-> ElemText(re, text, p, caps[j])]

\* Split(s, -1) for a regex that is one literal token
Split(re, s) ==
    LET F[i \in 0..Len(s)] ==
            IF i = 0 THEN << <<>> >>
            ELSE IF s[i] = re[1].c THEN Append(F[i - 1], <<>>)
            ELSE [F[i - 1] EXCEPT ![Len(F[i - 1])] = Append(@, s[i])]
    IN F[Len(s)]

\* ------------------------------------------------------------------ Fields
\* a value of Fields is a string or a []Fields
Str(s) == [tag |-> "string", s |-> s, l |-> <<>>]
Lst(l) == [tag |-> "list", s |-> <<>>, l |-> l]

EmptyFields == [k \in {} |-> Str(<<>>)]

\* Update that keeps the value f already has
UpdateKeepOld(f, other) ==
    [k \in (DOMAIN f) \cup (DOMAIN other) |->
        IF k \in DOMAIN f THEN f[k] ELSE other[k]]

Update(f, other) ==
    [k \in (DOMAIN f) \cup (DOMAIN other) |->
        IF k \in DOMAIN other THEN other[k] ELSE f[k]]

GetString(f, key) ==
    IF key \notin DOMAIN f THEN <<>>
    ELSE IF f[key].tag # "string" THEN <<>>
    ELSE f[key].s

\* the conversion of one item to map[string]string; val.(string) panics on
\* a value that is not a string
ItemPanics(item) == \E k \in DOMAIN item : item[k].tag # "string"

GetMapSlice(f, key) ==
    IF key \notin DOMAIN f THEN [panic |-> FALSE, value |-> <<>>]
    ELSE IF f[key].tag # "list" THEN [panic |-> FALSE, value |-> <<>>]
    ELSE IF \E i \in 1..Len(f[key].l) : ItemPanics(f[key].l[i])
         THEN [panic |-> TRUE, value |-> <<>>]
         ELSE [panic |-> FALSE,
               value |-> [i \in 1..Len(f[key].l) |->
                            [k \in DOMAIN f[key].l[i] |-> f[key].l[i][k].s]]]

GetFieldsSlice(f, key) ==
    IF key \notin DOMAIN f THEN [panic |-> FALSE, value |-> <<>>]
    ELSE IF f[key].tag # "list" THEN [panic |-> FALSE, value |-> <<>>]
    ELSE [panic |-> FALSE, value |-> f[key].l]

\* ------------------------------------------------------------------ errors
Nil == [kind |-> "nil", Name |-> "", Content |-> <<>>, list |-> <<>>]
NoMatch(name, c) == [kind |-> "NoMatch", Name |-> name, Content |-> c, list |-> <<>>]
ErrorList(l) == [kind |-> "ErrorList", Name |-> "", Content |-> <<>>, list |-> l]

\* %q of a name that needs no escape
Quote(s) == "\"" \o s \o "\""

NoMatchError(e) == "No match for " \o Quote(e.Name)

\* strings.Join(s, sep)
Join(s, sep) ==
    LET F[i \in 0..Len(s)] ==
            IF i = 0 THEN ""
            ELSE IF i = 1 THEN s[1]
            ELSE F[i - 1] \o sep \o s[i]
    IN F[Len(s)]

\* Error that joins with a comma
ErrorListErrorComma(e) == Join(e.list, ", ")

ErrorListError(e) == Join(e.list, "; ")

Error(e) == IF e.kind = "NoMatch" THEN NoMatchError(e) ELSE ErrorListError(e)

\* ---------------------------------------------------------------- patterns
\* user-supplied transforms (Clean, CleanItem): "nil" is no function
CleanDrop(f) == EmptyFields
CleanNest(f) == Update(f, [k \in {"sub"} |-> Lst(<<>>)])

ApplyClean(c, f) == IF c = "drop" THEN CleanDrop(f) ELSE CleanNest(f)

\* what a Search returns, with the calls it made: log is the sequence of
\* Search, Clean, regexGroups-on-item and CleanItem calls, in call order
Event(ev, path, i) == [ev |-> ev, path |-> path, i |-> i]
Result(f, e, log) == [fields |-> f, err |-> e, log |-> log]

regexGroups(re, text) ==
    IF ~MatchString(re, text) THEN [fields |-> EmptyFields, ok |-> FALSE]
    ELSE LET matches == FindStringSubmatch(re, text)
             names == SubexpNames(re)
             F[i \in 1..Len(names)] ==
                 IF i = 1 THEN EmptyFields
                 ELSE Update(F[i - 1], [k \in {names[i]} |-> Str(matches[i])])
         IN [fields |-> F[Len(names)], ok |-> TRUE]

\* Search that reports a missing optional Group
PatternGroupSearchRequired(pg, text, path) ==
    LET r == regexGroups(pg.Regex, text)
        call == <<Event("Search", path, 0)>>
    IN IF ~r.ok
       THEN Result(EmptyFields, NoMatch(pg.Name, text), call)
       ELSE IF pg.Clean # "nil"
            THEN Result(ApplyClean(pg.Clean, r.fields), Nil,
                        call \o <<Event("Clean", path, 0)>>)
            ELSE Result(r.fields, Nil, call)

PatternGroupSearch(pg, text, path) ==
    LET r == regexGroups(pg.Regex, text)
        call == <<Event("Search", path, 0)>>
    IN IF ~r.ok
       THEN IF pg.Optional
            THEN Result(EmptyFields, Nil, call)
            ELSE Result(EmptyFields, NoMatch(pg.Name, text), call)
       ELSE IF pg.Clean # "nil"
            THEN Result(ApplyClean(pg.Clean, r.fields), Nil,
                        call \o <<Event("Clean", path, 0)>>)
            ELSE Result(r.fields, Nil, call)

RECURSIVE ItemsLoop(_, _, _, _, _, _, _)

\* the loop that skips an item the item regex does not match
ItemsLoopSkip(pl, listName, itemsTexts, i, items, log, path) ==
    IF i >= Len(itemsTexts)
    THEN Result([k \in {listName} |-> Lst(items)], Nil, log)
    ELSE LET itemText == itemsTexts[i + 1] IN
         IF itemText = <<>>
         THEN ItemsLoop(pl, listName, itemsTexts, i + 1, items, log, path)
         ELSE LET r == regexGroups(pl.ItemRegex, itemText)
                  log1 == Append(log, Event("regexGroups", path, i))
              IN IF ~r.ok
                 THEN ItemsLoop(pl, listName, itemsTexts, i + 1, items, log1, path)
                 ELSE IF pl.CleanItem # "nil"
                      THEN ItemsLoop(pl, listName, itemsTexts, i + 1,
                                     Append(items, ApplyClean(pl.CleanItem, r.fields)),
                                     Append(log1, Event("CleanItem", path, i)), path)
                      ELSE ItemsLoop(pl, listName, itemsTexts, i + 1,
                                     Append(items, r.fields), log1, path)

\* the loop that returns an empty map when it found no item
ItemsLoopEmptyMap(pl, listName, itemsTexts, i, items, log, path) ==
    IF i >= Len(itemsTexts)
    THEN IF items = <<>>
         THEN Result(EmptyFields, Nil, log)
         ELSE Result([k \in {listName} |-> Lst(items)], Nil, log)
    ELSE LET itemText == itemsTexts[i + 1] IN
         IF itemText = <<>>
         THEN ItemsLoop(pl, listName, itemsTexts, i + 1, items, log, path)
         ELSE LET r == regexGroups(pl.ItemRegex, itemText)
                  log1 == Append(log, Event("regexGroups", path, i))
              IN IF ~r.ok
                 THEN Result(EmptyFields,
                             NoMatch(pl.Name \o " - item " \o ToString(i), itemText),
                             log1)
                 ELSE IF pl.CleanItem # "nil"
                      THEN ItemsLoop(pl, listName, itemsTexts, i + 1,
                                     Append(items, ApplyClean(pl.CleanItem, r.fields)),
                                     Append(log1, Event("CleanItem", path, i)), path)
                      ELSE ItemsLoop(pl, listName, itemsTexts, i + 1,
                                     Append(items, r.fields), log1, path)

\* the loop over itemsTexts from its index i (counted from 0, as range does)
ItemsLoop(pl, listName, itemsTexts, i, items, log, path) ==
    IF i >= Len(itemsTexts)
    THEN Result([k \in {listName} |-> Lst(items)], Nil, log)
    ELSE LET itemText == itemsTexts[i + 1] IN
         IF itemText = <<>>
         THEN ItemsLoop(pl, listName, itemsTexts, i + 1, items, log, path)
         ELSE LET r == regexGroups(pl.ItemRegex, itemText)
                  log1 == Append(log, Event("regexGroups", path, i))
              IN IF ~r.ok
                 THEN Result(EmptyFields,
                             NoMatch(pl.Name \o " - item " \o ToString(i), itemText),
                             log1)
                 ELSE IF pl.CleanItem # "nil"
                      THEN ItemsLoop(pl, listName, itemsTexts, i + 1,
                                     Append(items, ApplyClean(pl.CleanItem, r.fields)),
                                     Append(log1, Event("CleanItem", path, i)), path)
                      ELSE ItemsLoop(pl, listName, itemsTexts, i + 1,
                                     Append(items, r.fields), log1, path)

PatternListSearch(pl, text, path) ==
    LET call == <<Event("Search", path, 0)>> IN
    IF ~MatchString(pl.ListRegex, text)
    THEN IF pl.Optional
         THEN Result(EmptyFields, Nil, call)
         ELSE Result(EmptyFields, NoMatch(pl.Name \o " - list regex", text), call)
    ELSE LET listName == SubexpNames(pl.ListRegex)[2]
             listText == FindStringSubmatch(pl.ListRegex, text)[2]
             itemsTexts == Split(pl.SplitRegex, listText)
         IN ItemsLoop(pl, listName, itemsTexts, 0, <<>>, call, path)

RECURSIVE Search(_, _, _)
RECURSIVE DocumentLoop(_, _, _, _, _, _)

\* the loop that returns what it has merged when a pattern fails
DocumentLoopPartial(d, text, i, f, log, path) ==
    IF i > Len(d.children)
    THEN Result(f, Nil, log)
    ELSE LET r == Search(d.children[i], text, Append(path, i)) IN
         IF r.err # Nil
         THEN Result(f, r.err, log \o r.log)
         ELSE DocumentLoop(d, text, i + 1, Update(f, r.fields), log \o r.log, path)

\* the loop over the patterns of d from its index i (counted from 1)
DocumentLoop(d, text, i, f, log, path) ==
    IF i > Len(d.children)
    THEN Result(f, Nil, log)
    ELSE LET r == Search(d.children[i], text, Append(path, i)) IN
         IF r.err # Nil
         THEN Result(EmptyFields, r.err, log \o r.log)
         ELSE DocumentLoop(d, text, i + 1, Update(f, r.fields), log \o r.log, path)

DocumentSearch(d, text, path) ==
    DocumentLoop(d, text, 1, EmptyFields, <<Event("Search", path, 0)>>, path)

\* p.Search(content) through the Pattern interface
Search(p, text, path) ==
    IF p.kind = "group" THEN PatternGroupSearch(p, text, path)
    ELSE IF p.kind = "list" THEN PatternListSearch(p, text, path)
    ELSE DocumentSearch(p, text, path)

RECURSIVE DocumentsLoop(_, _, _, _, _)

\* the loop that goes on after a success and returns the last one
DocumentsLoopNoStop(ds, text, i, errList, log) ==
    IF i >= Len(ds.docs)
    THEN Result(EmptyFields, ErrorList(errList), log)
    ELSE LET r == DocumentSearch(ds.docs[i + 1], text, <<i + 1>>) IN
         IF r.err = Nil
         THEN LET more == DocumentsLoop(ds, text, i + 1, errList, log \o r.log)
              IN IF more.err = Nil THEN more ELSE Result(r.fields, Nil, more.log)
         ELSE DocumentsLoop(ds, text, i + 1,
                            Append(errList,
                                   "Document " \o ToString(i) \o ": " \o Error(r.err)),
                            log \o r.log)

\* the loop over the documents of ds from its index i (counted from 0)
DocumentsLoop(ds, text, i, errList, log) ==
    IF i >= Len(ds.docs)
    THEN Result(EmptyFields, ErrorList(errList), log)
    ELSE LET r == DocumentSearch(ds.docs[i + 1], text, <<i + 1>>) IN
         IF r.err = Nil
         THEN Result(r.fields, Nil, log \o r.log)
         ELSE DocumentsLoop(ds, text, i + 1,
                            Append(errList,
                                   "Document " \o ToString(i) \o ": " \o Error(r.err)),
                            log \o r.log)

\* Search with an error list that is kept from one call to the next
DocumentsSearchRetained(ds, text) ==
    DocumentsLoop(ds, text, 0, ret.err.list, <<Event("Search", <<>>, 0)>>)

DocumentsSearch(ds, text) ==
    DocumentsLoop(ds, text, 0, <<>>, <<Event("Search", <<>>, 0)>>)

\* ------------------------------------------------------ patterns under test
Bools == {TRUE, FALSE}
Cleans == {"nil", "drop", "nest"}

PatternGroup(name, re, clean, optional) ==
    [kind |-> "group", Name |-> name, Regex |-> re, Clean |-> clean,
     Optional |-> optional]

PatternList(name, lre, sre, ire, clean, optional) ==
    [kind |-> "list", Name |-> name, ListRegex |-> lre, SplitRegex |-> sre,
     ItemRegex |-> ire, CleanItem |-> clean, Optional |-> optional]

Document(children) == [kind |-> "doc", children |-> children]
Documents(docs) == [kind |-> "docs", docs |-> docs]
FieldsOf(f) == [kind |-> "fields", f |-> f]

ReAx == <<Lit("a"), One("x")>>             \* a(?P<x>.)
ReBx == <<Lit("b"), One("x")>>             \* b(?P<x>.)
ReBy == <<Lit("b"), One("y")>>             \* b(?P<y>.)
ReMixed == <<One(""), Lit(";"), One("y")>> \* (.);(?P<y>.)
ReUnnamed == <<Lit("a"), One("")>>         \* a(.)
ReNoGroup == <<Lit("b")>>                  \* b

GroupRegexes == {ReAx, ReBx, ReBy, ReMixed, ReUnnamed, ReNoGroup}

ReList == <<Lit("b"), Rest("items")>>              \* (?s:b(?P<items>.*))
ReListSecond == <<Lit("b"), One(""), Rest("items")>> \* (?s:b(.)(?P<items>.*))
ReListAll == <<Rest("items")>>                     \* (?s:(?P<items>.*))
ReSplit == <<Lit(";")>>                            \* ;
ReItem == <<Lit("a"), Rest("v")>>                  \* a(?P<v>.*)
ReItemMixed == <<One(""), One("v")>>               \* (.)(?P<v>.)

Groups ==
    {PatternGroup(n, re, c, o) :
        n \in {"Name", "Email"}, re \in GroupRegexes, c \in Cleans, o \in Bools}

Lists ==
    {PatternList("Items", lre, ReSplit, ire, c, o) :
        lre \in {ReList, ReListSecond, ReListAll}, ire \in {ReItem, ReItemMixed},
        c \in {"nil", "nest"}, o \in Bools}

GName == PatternGroup("Name", ReAx, "nil", FALSE)
GEmail == PatternGroup("Email", ReBx, "nil", FALSE)
GPhone == PatternGroup("Phone", ReBy, "nil", TRUE)
LItems == PatternList("Items", ReList, ReSplit, ReItem, "nil", FALSE)

\* the patterns a Document is built from
ChildPool == {GName, GEmail, LItems, Document(<<GEmail, GName>>)}

SeqsUpTo(S, n) == UNION {[1..k -> S] : k \in 0..n}

Docs == {Document(c) : c \in SeqsUpTo(ChildPool, MaxPatterns)}

\* the documents a Documents is built from
DocPool ==
    {Document(<<GName, GEmail>>), Document(<<GEmail>>), Document(<<LItems>>),
     Document(<<GPhone>>)}

DocSets == {Documents(d) : d \in SeqsUpTo(DocPool, MaxDocs)}

\* the Fields a caller holds: strings and lists of Fields, recursively
ItemPool ==
    {EmptyFields,
     [k \in {"v"} |-> Str(<<"a">>)],
     [k \in {"v", "sub"} |->
        IF k = "v" THEN Str(<<"b">>) ELSE Lst(<<[j \in {"v"} |-> Str(<<"a">>)]>>)]}

Values ==
    {Str(<<>>), Str(<<"a">>)} \cup {Lst(l) : l \in SeqsUpTo(ItemPool, MaxItems)}

FieldMaps == UNION {[K -> Values] : K \in SUBSET {"x", "items"}}

AccessKeys == {"x", "items", "nokey"}

NoGot == [key |-> "", panic |-> FALSE, value |-> <<>>]

\* the first Search made on the pattern under test: the configuration and the
\* content it was called with, what it returned, and whether a Search with
\* another content was made since
NoFirst ==
    [set |-> FALSE, root |-> <<>>, content |-> <<>>, fields |-> EmptyFields,
     err |-> Nil, between |-> FALSE]

Remember(r) ==
    IF ~first.set
    THEN [set |-> TRUE, root |-> root, content |-> content, fields |-> r.fields,
          err |-> r.err, between |-> FALSE]
    ELSE [first EXCEPT !.between = @ \/ content # first.content]

Init ==
    /\ \/ root \in Groups \cup Docs \cup DocSets /\ content \in Contents
       \/ root \in Lists /\ content \in ListContents
       \/ root \in {FieldsOf(f) : f \in FieldMaps} /\ content = <<>>
    /\ op = "init"
    /\ ret = Result(EmptyFields, Nil, <<>>)
    /\ got = NoGot
    /\ first = NoFirst

\* ----------------------------------------------------------------- actions
PatternGroupSearchCall ==
    /\ root.kind = "group"
    /\ ret' = PatternGroupSearch(root, content, <<>>)
    /\ first' = Remember(ret')
    /\ op' = "PatternGroup.Search"
    /\ UNCHANGED <<root, content, got>>

PatternListSearchCall ==
    /\ root.kind = "list"
    /\ ret' = PatternListSearch(root, content, <<>>)
    /\ first' = Remember(ret')
    /\ op' = "PatternList.Search"
    /\ UNCHANGED <<root, content, got>>

DocumentSearchCall ==
    /\ root.kind = "doc"
    /\ ret' = DocumentSearch(root, content, <<>>)
    /\ first' = Remember(ret')
    /\ op' = "Document.Search"
    /\ UNCHANGED <<root, content, got>>

DocumentsSearchCall ==
    /\ root.kind = "docs"
    /\ ret' = DocumentsSearch(root, content)
    /\ first' = Remember(ret')
    /\ op' = "Documents.Search"
    /\ UNCHANGED <<root, content, got>>

GetStringCall ==
    /\ root.kind = "fields"
    /\ \E key \in AccessKeys :
          got' = [key |-> key, panic |-> FALSE, value |-> GetString(root.f, key)]
    /\ op' = "GetString"
    /\ UNCHANGED <<root, content, ret, first>>

GetMapSliceCall ==
    /\ root.kind = "fields"
    /\ \E key \in AccessKeys :
          got' = [key |-> key, panic |-> GetMapSlice(root.f, key).panic,
                  value |-> GetMapSlice(root.f, key).value]
    /\ op' = "GetMapSlice"
    /\ UNCHANGED <<root, content, ret, first>>

GetFieldsSliceCall ==
    /\ root.kind = "fields"
    /\ \E key \in AccessKeys :
          got' = [key |-> key, panic |-> GetFieldsSlice(root.f, key).panic,
                  value |-> GetFieldsSlice(root.f, key).value]
    /\ op' = "GetFieldsSlice"
    /\ UNCHANGED <<root, content, ret, first>>

Next ==
    \/ PatternGroupSearchCall
    \/ PatternListSearchCall
    \/ DocumentSearchCall
    \/ DocumentsSearchCall
    \/ GetStringCall
    \/ GetMapSliceCall
    \/ GetFieldsSliceCall

Spec == Init /\ [][Next]_vars

\* ------------------------------------------- one pattern, many Search calls
\* the patterns that are searched again and again, and the contents they
\* are searched in
ReuseRoots ==
    {GEmail, GPhone, PatternGroup("Name", ReAx, "drop", FALSE),
     LItems, PatternList("Items", ReListAll, ReSplit, ReItem, "nest", TRUE),
     Document(<<GName, GEmail>>),
     Document(<<LItems, Document(<<GEmail, GPhone>>)>>),
     Documents(<<Document(<<GName, GEmail>>), Document(<<GEmail>>)>>),
     Documents(<<Document(<<GEmail>>), Document(<<GPhone>>)>>),
     Documents(<<Document(<<LItems>>), Document(<<GEmail>>)>>)}

ReuseContents == TextsUpTo(MaxReuseLen)

InitReuse ==
    /\ root \in ReuseRoots
    /\ content \in ReuseContents
    /\ op = "init"
    /\ ret = Result(EmptyFields, Nil, <<>>)
    /\ got = NoGot
    /\ first = NoFirst

\* the caller drops the last result and comes with another content
NewContent ==
    /\ content' \in ReuseContents \ {content}
    /\ op' = "idle"
    /\ ret' = Result(EmptyFields, Nil, <<>>)
    /\ UNCHANGED <<root, got, first>>

NextReuse ==
    \/ PatternGroupSearchCall
    \/ PatternListSearchCall
    \/ DocumentSearchCall
    \/ DocumentsSearchCall
    \/ NewContent

SpecReuse == InitReuse /\ [][NextReuse]_vars

\* ------------------------------------------------------------------ claims
\* the least element of a non-empty set of integers
Least(S) == CHOOSE x \in S : \A y \in S : x <= y

\* the indexes (from 1) of the direct children Search was invoked on, in
\* call order, by a caller whose own path has length depth
Invoked(log, depth) ==
    LET calls == SelectSeq(log, LAMBDA e : e.ev = "Search" /\ Len(e.path) = depth + 1)
    IN [j \in 1..Len(calls) |-> calls[j].path[depth + 1]]

\* what document i (from 1) of the Documents under test returns on its own
DocResult(i) == DocumentSearch(root.docs[i], content, <<i>>)
Succeeding == {i \in 1..Len(root.docs) : DocResult(i).err = Nil}

\* C1: Documents.Search attempts the documents in increasing index order,
\* each at most once; when some document succeeds it returns, with no error,
\* the Field Map of the lowest-indexed succeeding document and attempts no
\* document after that one.
C1_FirstSuccessWins ==
    op = "Documents.Search" =>
        LET tried == Invoked(ret.log, 0)
            dr == [i \in 1..Len(root.docs) |-> DocResult(i)]
            good == {i \in 1..Len(root.docs) : dr[i].err = Nil}
        IN
        /\ \A j \in 1..Len(tried) : tried[j] = j
        /\ Len(tried) <= Len(root.docs)
        /\ good # {} =>
              /\ ret.err = Nil
              /\ ret.fields = dr[Least(good)].fields
              /\ Len(tried) = Least(good)

\* a failing document, then a succeeding one with fields, then one more
C1_Witness ==
    /\ op = "Documents.Search"
    /\ Len(root.docs) = 3
    /\ Least(Succeeding \cup {9}) = 2
    /\ 3 \in Succeeding
    /\ DocResult(3).fields # DocResult(2).fields
    /\ ret.fields # EmptyFields

\* the message the claim gives for documents i..n (from 1) that all fail
RECURSIVE Labelled(_)
Labelled(i) ==
    IF i > Len(root.docs) THEN ""
    ELSE (IF i > 1 THEN "; " ELSE "")
         \o "Document " \o ToString(i - 1) \o ": " \o Error(DocResult(i).err)
         \o Labelled(i + 1)

\* the first failing child of document i when that child is a Group
FailingChildren(d) ==
    {j \in 1..Len(d.children) : Search(d.children[j], content, <<j>>).err # Nil}

\* C2: when all n >= 1 documents fail, Documents.Search returns an error
\* whose message is "Document i: <msg_i>" for i = 0..n-1 in attempt order
\* joined by "; ", <msg_i> being the message of document i's error, which
\* for a failing Group named N is: No match for "N".
C2_AllFailMessage ==
    (op = "Documents.Search" /\ Len(root.docs) >= 1 /\ Succeeding = {}) =>
        /\ ret.err # Nil
        /\ ret.err.kind = "ErrorList"
        /\ Error(ret.err) = Labelled(1)
        /\ \A i \in 1..Len(root.docs) :
              LET d == root.docs[i]
                  c == d.children[Least(FailingChildren(d))]
              IN c.kind = "group" =>
                    Error(DocResult(i).err) = "No match for \"" \o c.Name \o "\""

\* the two failing documents of TestDocumentsNoMatch
C2_Witness ==
    /\ op = "Documents.Search"
    /\ Len(root.docs) = 2
    /\ Succeeding = {}
    /\ Error(ret.err)
         = "Document 0: No match for \"Name\"; Document 1: No match for \"Email\""

\* what child j (from 1) of the Document under test returns on its own
ChildResult(j) == Search(root.children[j], content, <<j>>)
Failing == {j \in 1..Len(root.children) : ChildResult(j).err # Nil}

\* the paths of all the calls of a log
FirstSteps(log) == {log[j].path[1] : j \in {n \in 1..Len(log) : log[n].path # <<>>}}

\* C3: when some child fails, Document.Search returns the error of the first
\* failing child in declared order, unchanged, with an empty Field Map, and
\* invokes no child declared after it.
C3_FailFast ==
    (op = "Document.Search" /\ Failing # {}) =>
        /\ ret.err = ChildResult(Least(Failing)).err
        /\ ret.fields = EmptyFields
        /\ Invoked(ret.log, 0) = [j \in 1..Least(Failing) |-> j]
        /\ \A s \in FirstSteps(ret.log) : s <= Least(Failing)

\* a child that yields fields, then a failing child, then one more child
C3_Witness ==
    /\ op = "Document.Search"
    /\ Len(root.children) = 3
    /\ Failing = {2}
    /\ ChildResult(1).fields # EmptyFields
    /\ ret.err.kind = "NoMatch"

\* the Document with children i..j grouped into one nested Document
Regroup(d, i, j) ==
    Document(SubSeq(d.children, 1, i - 1)
             \o <<Document(SubSeq(d.children, i, j))>>
             \o SubSeq(d.children, j + 1, Len(d.children)))

\* the Document with children i and j swapped
Swap(d, i, j) ==
    Document([n \in 1..Len(d.children) |->
                IF n = i THEN d.children[j]
                ELSE IF n = j THEN d.children[i] ELSE d.children[n]])

\* the children that produce key k
Producers(k) == {j \in 1..Len(root.children) : k \in DOMAIN ChildResult(j).fields}

\* C4: when every child succeeds, Document.Search returns the children's
\* Field Maps merged in declared order: exactly the keys some child
\* produced, each with the value of the last child that produced it, and
\* the same map whichever consecutive children are grouped into a nested
\* sub-Document.
C4_MergeInOrder ==
    op = "Document.Search" =>
        LET n == Len(root.children)
            cr == [j \in 1..n |-> ChildResult(j)]
            prod(k) == {j \in 1..n : k \in DOMAIN cr[j].fields}
        IN (\A j \in 1..n : cr[j].err = Nil) =>
              /\ ret.err = Nil
              /\ DOMAIN ret.fields = UNION {DOMAIN cr[j].fields : j \in 1..n}
              /\ \A k \in DOMAIN ret.fields :
                    \E j \in prod(k) :
                       /\ \A m \in prod(k) : m <= j
                       /\ ret.fields[k] = cr[j].fields[k]
              /\ \A i \in 1..n : \A j \in (i + 1)..n :
                    LET r == DocumentSearch(Regroup(root, i, j), content, <<>>)
                    IN r.fields = ret.fields /\ r.err = Nil

\* three succeeding children, two of which collide on a key with different
\* values, so that swapping them changes the result, and a key that only
\* one child produces
C4_Witness ==
    /\ op = "Document.Search"
    /\ Len(root.children) = 3
    /\ Failing = {}
    /\ \E k \in DOMAIN ret.fields : Cardinality(Producers(k)) = 1
    /\ \E i, j \in 1..3 :
          /\ i < j
          /\ \E k \in DOMAIN ChildResult(i).fields \cap DOMAIN ChildResult(j).fields :
                ChildResult(i).fields[k] # ChildResult(j).fields[k]
          /\ DocumentSearch(Swap(root, i, j), content, <<>>).fields # ret.fields

\* C5: a Group whose regex does not match returns an empty Field Map with no
\* error when optional, and an empty Field Map with a NoMatch carrying the
\* Group's name and the searched content when not; clean is not invoked.
C5_GroupNoMatch ==
    (op = "PatternGroup.Search" /\ ~MatchString(root.Regex, content)) =>
        /\ ret.fields = EmptyFields
        /\ root.Optional => ret.err = Nil
        /\ ~root.Optional =>
              /\ ret.err.kind = "NoMatch"
              /\ ret.err.Name = root.Name
              /\ ret.err.Content = content
        /\ \A n \in 1..Len(ret.log) : ret.log[n].ev # "Clean"

\* a required Group with a clean transform fails on a non-empty content
C5_Witness ==
    /\ op = "PatternGroup.Search"
    /\ ~MatchString(root.Regex, content)
    /\ ~root.Optional
    /\ root.Clean # "nil"
    /\ content # <<>>
    /\ ret.err = NoMatch("Email", content)

\* the indexes, in SubexpNames, of the named capture groups of re
NamedIdx(re) == {j \in 2..Len(SubexpNames(re)) : SubexpNames(re)[j] # ""}

\* the extraction the claims describe: one key per named capture group
NamedExtraction(re, text) ==
    [n \in {SubexpNames(re)[j] : j \in NamedIdx(re)} |->
        Str(FindStringSubmatch(re, text)[CHOOSE j \in NamedIdx(re) : SubexpNames(re)[j] = n])]

\* C6: a Group without clean whose regex matches returns, with no error,
\* exactly one key per named capture group, mapped to what the group
\* captured in the first match; unnamed capture groups contribute no key.
C6_NamedGroupsOnly ==
    (op = "PatternGroup.Search" /\ root.Clean = "nil"
        /\ MatchString(root.Regex, content)) =>
        /\ ret.err = Nil
        /\ ret.fields = NamedExtraction(root.Regex, content)

\* the name of the single named capture group of the locate regex
NamedGroupName(re) == SubexpNames(re)[CHOOSE j \in NamedIdx(re) : TRUE]

ListText == FindStringSubmatch(root.ListRegex, content)[2]
ItemsTexts == Split(root.SplitRegex, ListText)
NonEmpty == SelectSeq(ItemsTexts, LAMBDA t : t # <<>>)

\* C8: when the locate regex matches and every non-empty segment matches the
\* item regex, the list under the output key holds one Field Map per
\* non-empty segment, in order, each the named-group extraction of the item
\* regex on that segment, after the per-item transform when there is one.
C8_OneItemPerSegment ==
    (op = "PatternList.Search" /\ MatchString(root.ListRegex, content)
        /\ \A n \in 1..Len(NonEmpty) : MatchString(root.ItemRegex, NonEmpty[n])) =>
        /\ ret.err = Nil
        /\ \A k \in DOMAIN ret.fields :
              ret.fields[k].l =
                 [n \in 1..Len(NonEmpty) |->
                    IF root.CleanItem = "nil"
                    THEN NamedExtraction(root.ItemRegex, NonEmpty[n])
                    ELSE ApplyClean(root.CleanItem,
                                    NamedExtraction(root.ItemRegex, NonEmpty[n]))]

\* the indexes (from 0) of the non-empty segments the item regex rejects
BadItems ==
    {i \in 0..(Len(ItemsTexts) - 1) :
        ItemsTexts[i + 1] # <<>> /\ ~MatchString(root.ItemRegex, ItemsTexts[i + 1])}

\* C9: when the locate regex matches and some non-empty segment does not
\* match the item regex, PatternList.Search returns a NoMatch and an empty
\* Field Map, optional or not, and processes no segment after the first
\* failing one.
C9_ItemFailureIsFatal ==
    (op = "PatternList.Search" /\ MatchString(root.ListRegex, content)
        /\ BadItems # {}) =>
        /\ ret.err.kind = "NoMatch"
        /\ ret.err.Content = ItemsTexts[Least(BadItems) + 1]
        /\ ret.fields = EmptyFields
        /\ \A n \in 1..Len(ret.log) :
              ret.log[n].ev \in {"regexGroups", "CleanItem"} =>
                 ret.log[n].i <= Least(BadItems)
        /\ ret.log[Len(ret.log)] = Event("regexGroups", <<>>, Least(BadItems))

\* an optional List: one item extracted, the next one fails, one more follows
C9_Witness ==
    /\ op = "PatternList.Search"
    /\ root.Optional
    /\ MatchString(root.ListRegex, content)
    /\ Len(ItemsTexts) = 3
    /\ BadItems = {1}
    /\ MatchString(root.ItemRegex, ItemsTexts[1])
    /\ MatchString(root.ItemRegex, ItemsTexts[3])
    /\ ret.err.kind = "NoMatch"

\* C10: GetString and the list accessors never fail; GetString returns the
\* stored string, or the empty string when the key is absent or not a
\* string; the list accessors return the stored Field Maps in order, or an
\* empty sequence when the key is absent or not a list of Field Maps.
C10_AccessorsNeverFail ==
    LET f == root.f
        k == got.key
        stored == IF k \in DOMAIN f /\ f[k].tag = "list" THEN f[k].l ELSE <<>>
    IN
    /\ op = "GetString" =>
          /\ ~got.panic
          /\ got.value = IF k \in DOMAIN f /\ f[k].tag = "string" THEN f[k].s ELSE <<>>
    /\ op = "GetFieldsSlice" => ~got.panic /\ got.value = stored
    /\ op = "GetMapSlice" =>
          /\ ~got.panic
          /\ Len(got.value) = Len(stored)
          /\ \A i \in 1..Len(stored) :
                /\ DOMAIN got.value[i] = DOMAIN stored[i]
                /\ \A key \in DOMAIN stored[i] :
                      stored[i][key].tag = "string" => got.value[i][key] = stored[i][key].s

SearchOps ==
    {"PatternGroup.Search", "PatternList.Search", "Document.Search", "Documents.Search"}

ProcessedBefore(i) == Cardinality({j \in 0..(i - 1) : ItemsTexts[j + 1] # <<>>})

\* C12: when an item does not match the item regex, the NoMatch names the
\* matcher and the 0-based index of the failing item among the processed
\* items, that is among the non-empty segments, and carries the item's text
\* as its content.
C12_IndexAmongItems ==
    (op = "PatternList.Search" /\ MatchString(root.ListRegex, content)
        /\ BadItems # {}) =>
        /\ ret.err.kind = "NoMatch"
        /\ ret.err.Name
             = root.Name \o " - item " \o ToString(ProcessedBefore(Least(BadItems)))
        /\ ret.err.Content = ItemsTexts[Least(BadItems) + 1]

=============================================================================
